---- MODULE Spec2Model ----
(***************************************************************************)
(* Model of "Manual Object Measurement/main.py": a Streamlit script that   *)
(* is re-executed from top to bottom on every widget event, a session      *)
(* state that survives the re-executions, a video producer thread that     *)
(* replaces the most recent frame, and a CSV file the script appends to.   *)
(*                                                                         *)
(* Real numbers are exact rationals <<num, den>>; math.hypot is exact on   *)
(* perfect squares and truncated to 1/HypotScale otherwise; the 2-decimal  *)
(* formatting f"{x:.2f}" is the integer number of hundredths.              *)
(***************************************************************************)
EXTENDS Integers, Sequences, FiniteSets, TLC

\* ------------------------------------------------------------------ bounds
MaxPoints   == 3     \* objects the operator places on one canvas
MaxProducts == 2     \* cap on product_count
MaxRows     == 1     \* cap on rows appended in one session
MaxRepeatRows == 2   \* the same cap where the operator saves repeatedly
FrameLen    == 2     \* pixels of one video frame

\* --------------------------------------------------------------- constants
NoRatio     == << >>           \* st.session_state.ratio is None
NoInput     == << >>           \* the number input is not on the page
NoImage     == 0               \* captured_image / VideoProcessor.frame is None
NotShown    == << >>           \* the canvas is not on the page
Free        == << >>           \* an ndarray identity that is not in use
NoData      == [has |-> FALSE, objects |-> << >>]   \* json_data is None
HypotScale  == 10 * 10         \* resolution of an irrational pixel distance
BufIds      == 1 .. 4          \* identities of the live ndarray objects

\* Raw canvas coordinates ("left", "top") in half pixels: (0.5, 0.5), (30.5, 40.5)
Objs        == { <<1, 1>>, <<61, 81>> }
\* The same for the points (0,0), (100,0), (100,50) of the worked scenario
ScenarioObjs == { <<1, 1>>, <<201, 1>>, <<201, 101>> }
\* Values the operator types into the number input (cm), as rationals
KnownLengths == { <<15, 1>>, <<1, 10>> }
\* Frames the camera produces: every pixel of frame k has colour k
Frame(k)    == [i \in 1 .. FrameLen |-> k]
Frames      == { Frame(1), Frame(2) }
\* A camera that looks at a scene in which nothing moves
StillFrames == { Frame(1) }

\* -------------------------------------------------------------- arithmetic
RECURSIVE GCD(_, _)
GCD(a, b) == IF b = 0 THEN a ELSE GCD(b, a % b)

Norm(r) ==
    LET g == GCD(r[1], r[2]) IN
    IF g = 0 THEN r ELSE <<r[1] \div g, r[2] \div g>>

RMul(a, b) == Norm(<<a[1] * b[1], a[2] * b[2]>>)
RDiv(a, b) == Norm(<<a[1] * b[2], a[2] * b[1]>>)
RInt(n)    == <<n, 1>>
RPos(a)    == a[1] > 0 /\ a[2] > 0
RIsZero(a) == a[1] = 0

RECURSIVE ISqrtIn(_, _, _)
ISqrtIn(n, lo, hi) ==
    IF lo >= hi THEN lo
    ELSE LET mid == (lo + hi + 1) \div 2 IN
         IF mid * mid <= n THEN ISqrtIn(n, mid, hi) ELSE ISqrtIn(n, lo, mid - 1)

ISqrt(n) == ISqrtIn(n, 0, 46340)

\* math.hypot(dx, dy)
Hypot(dx, dy) ==
    LET d2 == dx * dx + dy * dy
        s  == ISqrt(d2)
    IN  IF s * s = d2 THEN RInt(s)
        ELSE Norm(<<ISqrt(d2 * HypotScale * HypotScale), HypotScale>>)

\* f"{x:.2f}" for x >= 0: hundredths, round half to even
Fmt2(x) ==
    LET n == x[1] * 100
        q == n \div x[2]
        r == n % x[2]
    IN  IF 2 * r > x[2] \/ (2 * r = x[2] /\ q % 2 = 1) THEN q + 1 ELSE q

\* int(v) of a coordinate given in half pixels: truncation toward zero
IntOf(v) == IF v >= 0 THEN v \div 2 ELSE -((-v) \div 2)

RECURSIVE SeqMax(_)
SeqMax(s) == IF Len(s) = 1 THEN s[1]
             ELSE LET m == SeqMax(Tail(s)) IN IF s[1] > m THEN s[1] ELSE m
RECURSIVE SeqMin(_)
SeqMin(s) == IF Len(s) = 1 THEN s[1]
             ELSE LET m == SeqMin(Tail(s)) IN IF s[1] < m THEN s[1] ELSE m

\* ------------------------------------------------------------------- state
VARIABLES
    points,              \* st.session_state.points
    measured_distances,  \* st.session_state.measured_distances
    product_count,       \* st.session_state.product_count
    captured_image,      \* st.session_state.captured_image (ndarray identity)
    ratio,               \* st.session_state.ratio
    calibration_mode,    \* st.session_state.calibration_mode
    csv,                 \* measurements.csv: [exists, lines]
    canvas,              \* component value of st_canvas(key="canvas")
    canvas_bg,           \* pixels of the background the canvas was drawn with
    known_cm,            \* widget value of the number input, if on the page
    playing,             \* ctx.video_processor is not None
    vp_frame,            \* VideoProcessor.frame (ndarray identity)
    heap,                \* pixels of every live ndarray
    pc,                  \* "idle", or "copying" inside frame.copy()
    cap_src,             \* the ndarray frame.copy() reads
    cap_buf,             \* the pixels frame.copy() has written so far
    msgs,                \* st.success / st.error / st.warning / exception of the last run
    rendered,            \* the page has been rendered at least once
    session_base         \* number of lines of the file after the first run

session == <<points, measured_distances, product_count, captured_image,
             ratio, calibration_mode>>
widgets == <<canvas, canvas_bg, known_cm>>
video   == <<playing, vp_frame>>
copier  == <<pc, cap_src, cap_buf>>
vars    == <<points, measured_distances, product_count, captured_image,
             ratio, calibration_mode, csv, canvas, canvas_bg, known_cm,
             playing, vp_frame, heap, pc, cap_src, cap_buf, msgs,
             rendered, session_base>>

DEFAULT_RATIO == Norm(<<15 * 100, 27303>>)       \* 15 / 273.03
DefaultKnown  == <<15, 1>>                       \* number_input(value=15.0)

Header == [hdr |-> TRUE, num |-> 0, w |-> 0, h |-> 0, d |-> << >>]
OldRow == [hdr |-> FALSE, num |-> 5, w |-> 1500, h |-> 750, d |-> <<1500>>]
Row(n, w, h, d) == [hdr |-> FALSE, num |-> n, w |-> w, h |-> h, d |-> d]

\* ------------------------------------------------------------ ndarray heap
\* Three names can hold an ndarray: VideoProcessor.frame, the source of a
\* running frame.copy(), and st.session_state.captured_image.  An ndarray
\* no name holds is gone; identities are renumbered in the order of the
\* names, which keeps who shares an ndarray with whom and nothing else.
Alloc(h) == CHOOSE b \in BufIds : h[b] = Free /\ \A c \in BufIds : h[c] = Free => b <= c
Pixels(h, ref) == IF ref = NoImage THEN NotShown ELSE h[ref]

Renumber(h, vp, src, img) ==
    LET nvp  == IF vp = NoImage THEN NoImage ELSE 1
        used1 == IF vp = NoImage THEN 0 ELSE 1
        nsrc == IF src = NoImage THEN NoImage
                ELSE IF src = vp THEN nvp ELSE used1 + 1
        used2 == IF src = NoImage \/ src = vp THEN used1 ELSE used1 + 1
        nimg == IF img = NoImage THEN NoImage
                ELSE IF img = vp THEN nvp
                ELSE IF img = src THEN nsrc ELSE used2 + 1
    IN  [vp |-> nvp, src |-> nsrc, img |-> nimg,
         heap |-> [b \in BufIds |->
                     IF nvp = b THEN h[vp]
                     ELSE IF nsrc = b THEN h[src]
                     ELSE IF nimg = b THEN h[img]
                     ELSE Free]]

\* -------------------------------------------------- the script, top to bottom
\* The state one execution of the script works on: the session state, the
\* file, the widget values registered by this execution, and its output.
RunState ==
    [points |-> points, measured_distances |-> measured_distances,
     product_count |-> product_count, captured_image |-> captured_image,
     ratio |-> ratio, calibration_mode |-> calibration_mode, csv |-> csv,
     canvas |-> NoData, canvas_bg |-> NotShown, known_cm |-> NoInput,
     msgs |-> {}]

\* The widget values the browser sends with the event that starts a run
Widgets == [canvas |-> canvas, canvas_bg |-> canvas_bg, known_cm |-> known_cm]

\* the header written without asking whether the file exists
CsvInitAlways(r) == [r EXCEPT !.csv = [exists |-> TRUE, lines |-> <<Header>>]]

\* lines 16-19
CsvInit(r) ==
    IF ~r.csv.exists
    THEN [r EXCEPT !.csv = [exists |-> TRUE, lines |-> <<Header>>]]
    ELSE r

\* a reset that also forgets the calibration
StartNewProductHandlerResetsRatio(r, clicked) ==
    IF clicked
    THEN [r EXCEPT !.points = << >>,
                   !.measured_distances = << >>,
                   !.product_count = @ + 1,
                   !.captured_image = NoImage,
                   !.ratio = NoRatio]
    ELSE r

\* a reset that forgets the measured distances and counts down
StartNewProductHandlerSlip(r, clicked) ==
    IF clicked
    THEN [r EXCEPT !.points = << >>,
                   !.product_count = @ - 1,
                   !.captured_image = NoImage]
    ELSE r

\* lines 37-41
StartNewProductHandler(r, clicked) ==
    IF clicked
    THEN [r EXCEPT !.points = << >>,
                   !.measured_distances = << >>,
                   !.product_count = @ + 1,
                   !.captured_image = NoImage]
    ELSE r

\* line 44
Checkbox(r, value) == [r EXCEPT !.calibration_mode = value]

\* lines 73-82: the component keeps its value while it is drawn again with
\* the same arguments, and starts without a value otherwise
StCanvas(w, bg) == IF w.canvas_bg = bg THEN w.canvas ELSE NoData

\* lines 85-87
CanvasPoints(objects) ==
    [i \in 1 .. Len(objects) |-> <<IntOf(objects[i][1]), IntOf(objects[i][2])>>]

\* line 93: the number input keeps its value while it stays on the page
NumberInput(w) == IF w.known_cm = NoInput THEN DefaultKnown ELSE w.known_cm

PixelDist(pt1, pt2) == Hypot(pt2[1] - pt1[1], pt2[2] - pt1[2])

\* a calibration that divides without looking at the distance
CalibrateUnchecked(r, known, pixel_dist) ==
    [r EXCEPT !.ratio = RDiv(known, pixel_dist),
              !.msgs = @ \cup {"calibrated"}]

\* lines 96-100
Calibrate(r, known, pixel_dist) ==
    IF RPos(pixel_dist)
    THEN [r EXCEPT !.ratio = RDiv(known, pixel_dist),
                   !.msgs = @ \cup {"calibrated"}]
    ELSE [r EXCEPT !.msgs = @ \cup {"too_close"}]

\* a calibration that takes the first two of any number of points
CalibrationBranchFirstTwo(r, w) ==
    IF Len(r.points) >= 2
    THEN LET known == NumberInput(w)
             r1    == [r EXCEPT !.known_cm = known]
         IN  Calibrate(r1, known, PixelDist(r.points[1], r.points[2]))
    ELSE r

\* lines 91-102
CalibrationBranch(r, w) ==
    IF Len(r.points) = 2
    THEN LET known == NumberInput(w)
             r1    == [r EXCEPT !.known_cm = known]
         IN  Calibrate(r1, known, PixelDist(r.points[1], r.points[2]))
    ELSE IF Len(r.points) > 2
         THEN [r EXCEPT !.msgs = @ \cup {"only_two"}]
         ELSE r

\* line 105: st.session_state.ratio or DEFAULT_RATIO
Truthy(x) == x # NoRatio /\ ~RIsZero(x)
RatioOrDefault(x) == IF Truthy(x) THEN x ELSE DEFAULT_RATIO

\* segments that all start at the first point
DistancesFromFirst(pts, rt) ==
    [i \in 1 .. (IF Len(pts) = 0 THEN 0 ELSE Len(pts) - 1) |->
        RMul(PixelDist(pts[1], pts[i + 1]), rt)]

\* lines 107-116
Distances(pts, rt) ==
    [i \in 1 .. (IF Len(pts) = 0 THEN 0 ELSE Len(pts) - 1) |->
        RMul(PixelDist(pts[i], pts[i + 1]), rt)]

\* lines 104-129
MeasurementBranch(r) ==
    LET distances == Distances(r.points, RatioOrDefault(r.ratio)) IN
    IF distances # << >>
    THEN [r EXCEPT !.measured_distances = distances]
    ELSE r

\* lines 69-129; bg is the pixel content of the captured image
SelectPoints(r, w, bg) ==
    IF r.captured_image # NoImage
    THEN LET json_data == StCanvas(w, bg)
             r1 == [r EXCEPT !.canvas = json_data, !.canvas_bg = bg]
             r2 == IF json_data.has
                   THEN [r1 EXCEPT !.points = CanvasPoints(json_data.objects)]
                   ELSE r1
         IN  IF r2.calibration_mode
             THEN CalibrationBranch(r2, w)
             ELSE MeasurementBranch(r2)
    ELSE r

\* a row with the two extents taken from the wrong axes
SaveRowSwapped(r) ==
    LET x_vals == [i \in 1 .. Len(r.points) |-> r.points[i][1]]
        y_vals == [i \in 1 .. Len(r.points) |-> r.points[i][2]]
        width_px  == SeqMax(y_vals) - SeqMin(y_vals)
        height_px == SeqMax(x_vals) - SeqMin(x_vals)
        width_cm  == RMul(RInt(width_px), r.ratio)
        height_cm == RMul(RInt(height_px), r.ratio)
    IN  Row(r.product_count + 1, Fmt2(width_cm), Fmt2(height_cm),
            [i \in 1 .. Len(r.measured_distances) |-> Fmt2(r.measured_distances[i])])

\* lines 134-149: the row that is written
SaveRow(r) ==
    LET x_vals == [i \in 1 .. Len(r.points) |-> r.points[i][1]]
        y_vals == [i \in 1 .. Len(r.points) |-> r.points[i][2]]
        width_px  == SeqMax(x_vals) - SeqMin(x_vals)
        height_px == SeqMax(y_vals) - SeqMin(y_vals)
        width_cm  == RMul(RInt(width_px), r.ratio)
        height_cm == RMul(RInt(height_px), r.ratio)
    IN  Row(r.product_count + 1, Fmt2(width_cm), Fmt2(height_cm),
            [i \in 1 .. Len(r.measured_distances) |-> Fmt2(r.measured_distances[i])])

\* a guard that is off by one
SaveGuardOnePoint(r) == Len(r.points) > 0 /\ Truthy(r.ratio)

\* line 133
SaveGuard(r) == Len(r.points) > 1 /\ Truthy(r.ratio)

\* a save that drops the image but leaves the points behind
SaveHandlerKeepsPoints(r, clicked, io_ok) ==
    IF ~clicked THEN r
    ELSE IF SaveGuard(r)
         THEN IF io_ok
              THEN [r EXCEPT !.csv.lines = Append(@, SaveRow(r)),
                             !.msgs = @ \cup {"saved"},
                             !.captured_image = NoImage,
                             !.measured_distances = << >>]
              ELSE [r EXCEPT !.msgs = @ \cup {"exception"}]
         ELSE [r EXCEPT !.msgs = @ \cup {"save_warning"}]

\* a save that leaves the measured distances behind
SaveHandlerKeepsDistances(r, clicked, io_ok) ==
    IF ~clicked THEN r
    ELSE IF SaveGuard(r)
         THEN IF io_ok
              THEN [r EXCEPT !.csv.lines = Append(@, SaveRow(r)),
                             !.msgs = @ \cup {"saved"},
                             !.points = << >>,
                             !.captured_image = NoImage]
              ELSE [r EXCEPT !.msgs = @ \cup {"exception"}]
         ELSE [r EXCEPT !.msgs = @ \cup {"save_warning"}]

\* a save that clears the session before it writes
SaveHandlerClearFirst(r, clicked, io_ok) ==
    IF ~clicked THEN r
    ELSE IF SaveGuard(r)
         THEN LET c == [r EXCEPT !.points = << >>,
                                 !.captured_image = NoImage,
                                 !.measured_distances = << >>]
              IN  IF io_ok
                  THEN [c EXCEPT !.csv.lines = Append(@, SaveRow(r)),
                                 !.msgs = @ \cup {"saved"}]
                  ELSE [c EXCEPT !.msgs = @ \cup {"exception"}]
         ELSE [r EXCEPT !.msgs = @ \cup {"save_warning"}]

\* lines 132-156; when open() or the write raises, the run ends there
SaveHandler(r, clicked, io_ok) ==
    IF ~clicked THEN r
    ELSE IF SaveGuard(r)
         THEN IF io_ok
              THEN [r EXCEPT !.csv.lines = Append(@, SaveRow(r)),
                             !.msgs = @ \cup {"saved"},
                             !.points = << >>,
                             !.captured_image = NoImage,
                             !.measured_distances = << >>]
              ELSE [r EXCEPT !.msgs = @ \cup {"exception"}]
         ELSE [r EXCEPT !.msgs = @ \cup {"save_warning"}]

\* lines 69-156 of one execution
Rest(r, w, h, save, io_ok) ==
    SaveHandler(SelectPoints(r, w, Pixels(h, r.captured_image)), save, io_ok)

\* lines 16-156 of an execution in which "Capture Frame" is not clicked
Script(w, h, new_product, checkbox, save, io_ok) ==
    Rest(Checkbox(StartNewProductHandler(CsvInit(RunState), new_product), checkbox),
         w, h, save, io_ok)

\* What an execution leaves behind.  Widgets the execution did not draw lose
\* their value; the frame.copy() of the execution, if any, is over.
Commit(r, h, vp) ==
    LET n == Renumber(h, vp, NoImage, r.captured_image) IN
    /\ points' = r.points
    /\ measured_distances' = r.measured_distances
    /\ product_count' = r.product_count
    /\ captured_image' = n.img
    /\ ratio' = r.ratio
    /\ calibration_mode' = r.calibration_mode
    /\ csv' = r.csv
    /\ canvas' = r.canvas
    /\ canvas_bg' = r.canvas_bg
    /\ known_cm' = r.known_cm
    /\ msgs' = r.msgs
    /\ vp_frame' = n.vp
    /\ heap' = n.heap
    /\ pc' = "idle"
    /\ cap_src' = NoImage
    /\ cap_buf' = << >>

\* ------------------------------------------------------------------ actions
Init ==
    /\ points = << >>
    /\ measured_distances = << >>
    /\ product_count = 0
    /\ captured_image = NoImage
    /\ ratio = NoRatio
    /\ calibration_mode = FALSE
    /\ csv \in { [exists |-> FALSE, lines |-> << >>],
                 [exists |-> TRUE,  lines |-> <<Header, OldRow>>] }
    /\ canvas = NoData
    /\ canvas_bg = NotShown
    /\ known_cm = NoInput
    /\ playing = FALSE
    /\ vp_frame = NoImage
    /\ heap = [b \in BufIds |-> Free]
    /\ pc = "idle"
    /\ cap_src = NoImage
    /\ cap_buf = << >>
    /\ msgs = {}
    /\ rendered = FALSE
    /\ session_base = 0

Ready == rendered /\ pc = "idle"

\* The browser opens the page: the first execution of the script
PageLoad ==
    /\ ~rendered /\ pc = "idle"
    /\ LET r == Script(Widgets, heap, FALSE, calibration_mode, FALSE, TRUE) IN
       /\ Commit(r, heap, vp_frame)
       /\ session_base' = Len(r.csv.lines)
    /\ rendered' = TRUE
    /\ UNCHANGED playing

\* An execution no widget of this script asked for
Rerun ==
    /\ Ready
    /\ Commit(Script(Widgets, heap, FALSE, calibration_mode, FALSE, TRUE), heap, vp_frame)
    /\ UNCHANGED <<playing, rendered, session_base>>

StartNewProduct ==
    /\ Ready
    /\ product_count < MaxProducts
    /\ Commit(Script(Widgets, heap, TRUE, calibration_mode, FALSE, TRUE), heap, vp_frame)
    /\ UNCHANGED <<playing, rendered, session_base>>

ToggleCalibration ==
    /\ Ready
    /\ Commit(Script(Widgets, heap, FALSE, ~calibration_mode, FALSE, TRUE), heap, vp_frame)
    /\ UNCHANGED <<playing, rendered, session_base>>

\* The operator starts the stream: webrtc_streamer creates a VideoProcessor
StartStream ==
    /\ Ready
    /\ ~playing
    /\ playing' = TRUE
    /\ Commit(Script(Widgets, heap, FALSE, calibration_mode, FALSE, TRUE), heap, NoImage)
    /\ UNCHANGED <<rendered, session_base>>

\* The operator stops the stream: ctx.video_processor is None again
StopStream ==
    /\ Ready
    /\ playing
    /\ playing' = FALSE
    /\ Commit(Script(Widgets, heap, FALSE, calibration_mode, FALSE, TRUE), heap, NoImage)
    /\ UNCHANGED <<rendered, session_base>>

\* The operator places one more point on the displayed canvas
ClickPoint(o) ==
    /\ Ready
    /\ canvas_bg # NotShown
    /\ Len(canvas.objects) < MaxPoints
    /\ LET w == [Widgets EXCEPT !.canvas = [has |-> TRUE, objects |-> Append(canvas.objects, o)]]
       IN  Commit(Script(w, heap, FALSE, calibration_mode, FALSE, TRUE), heap, vp_frame)
    /\ UNCHANGED <<playing, rendered, session_base>>

\* A canvas that was just put on the page reports its (empty) drawing
CanvasReady ==
    /\ Ready
    /\ canvas_bg # NotShown
    /\ ~canvas.has
    /\ LET w == [Widgets EXCEPT !.canvas = [has |-> TRUE, objects |-> << >>]]
       IN  Commit(Script(w, heap, FALSE, calibration_mode, FALSE, TRUE), heap, vp_frame)
    /\ UNCHANGED <<playing, rendered, session_base>>

\* The operator edits the number input
SetKnownLength(k) ==
    /\ Ready
    /\ known_cm # NoInput
    /\ k # known_cm
    /\ LET w == [Widgets EXCEPT !.known_cm = k]
       IN  Commit(Script(w, heap, FALSE, calibration_mode, FALSE, TRUE), heap, vp_frame)
    /\ UNCHANGED <<playing, rendered, session_base>>

\* The rows this session has appended
SessionRows ==
    IF rendered THEN SubSeq(csv.lines, session_base + 1, Len(csv.lines)) ELSE << >>

MeasureAndSave(io_ok) ==
    /\ Ready
    /\ Commit(Script(Widgets, heap, FALSE, calibration_mode, TRUE, io_ok), heap, vp_frame)
    /\ UNCHANGED <<playing, rendered, session_base>>

\* lines 16-44 of an execution in which "Capture Frame" is clicked
BeforeCapture == Checkbox(StartNewProductHandler(CsvInit(RunState), FALSE), calibration_mode)

\* line 64
FrameHeld == playing /\ vp_frame # NoImage

\* lines 65-156 once frame.copy() has returned the pixels `copy`
AfterCopy(r, copy) ==
    LET b  == Alloc(heap)
        h1 == [heap EXCEPT ![b] = copy]
    IN  Commit(Rest([r EXCEPT !.captured_image = b], Widgets, h1, FALSE, TRUE), h1, vp_frame)

\* "Capture Frame" with frame.copy() as one step
CaptureFrame ==
    /\ Ready
    /\ IF FrameHeld
       THEN AfterCopy(BeforeCapture, heap[vp_frame])
       ELSE Commit(Rest(BeforeCapture, Widgets, heap, FALSE, TRUE), heap, vp_frame)
    /\ UNCHANGED <<playing, rendered, session_base>>

\* "Capture Frame": lines 16-64; frame.copy() starts when a frame is held
CaptureBegin ==
    /\ Ready
    /\ IF FrameHeld
       THEN /\ pc' = "copying"
            /\ cap_src' = vp_frame
            /\ cap_buf' = << >>
            /\ csv' = BeforeCapture.csv
            /\ msgs' = {}
            /\ UNCHANGED <<session, widgets, vp_frame, heap>>
       ELSE Commit(Rest(BeforeCapture, Widgets, heap, FALSE, TRUE), heap, vp_frame)
    /\ UNCHANGED <<playing, rendered, session_base>>

\* frame.copy() copies one more pixel
CopyPixel ==
    /\ pc = "copying"
    /\ Len(cap_buf) < FrameLen
    /\ cap_buf' = Append(cap_buf, heap[cap_src][Len(cap_buf) + 1])
    /\ UNCHANGED <<session, csv, widgets, video, heap, pc, cap_src, msgs,
                   rendered, session_base>>

\* line 65 assigns the copy; lines 66-156 follow
CaptureFinish ==
    /\ pc = "copying"
    /\ Len(cap_buf) = FrameLen
    /\ AfterCopy(RunState, cap_buf)
    /\ UNCHANGED <<playing, rendered, session_base>>

\* a producer that writes the new pixels into the ndarray it already holds
RecvStoreInPlace(h, ref, f) ==
    IF ref = NoImage
    THEN LET b == Alloc(h) IN [heap |-> [h EXCEPT ![b] = f], frame |-> b]
    ELSE [heap |-> [h EXCEPT ![ref] = f], frame |-> ref]

\* lines 52-53: self.frame = img.copy() binds self.frame to a new ndarray
RecvStore(h, ref, f) ==
    LET b == Alloc(h) IN [heap |-> [h EXCEPT ![b] = f], frame |-> b]

\* VideoProcessor.recv on the producer thread
Recv(f) ==
    /\ playing
    /\ LET res == RecvStore(heap, vp_frame, f)
           n   == Renumber(res.heap, res.frame, cap_src, captured_image)
       IN  /\ vp_frame' = n.vp
           /\ cap_src' = n.src
           /\ captured_image' = n.img
           /\ heap' = n.heap
    /\ UNCHANGED <<points, measured_distances, product_count, ratio,
                   calibration_mode, csv, widgets, playing, pc, cap_buf, msgs,
                   rendered, session_base>>

\* "Measure & Save" while the session has written fewer than n rows
SaveUpTo(n, io_ok) == Len(SessionRows) < n /\ MeasureAndSave(io_ok)

\* The session: every execution of the script is one step, the camera looks
\* at a still scene
Next ==
    \/ PageLoad
    \/ Rerun
    \/ StartNewProduct
    \/ ToggleCalibration
    \/ StartStream
    \/ StopStream
    \/ \E o \in Objs : ClickPoint(o)
    \/ CanvasReady
    \/ \E k \in KnownLengths : SetKnownLength(k)
    \/ \E io_ok \in BOOLEAN : SaveUpTo(MaxRows, io_ok)
    \/ CaptureFrame
    \/ \E f \in StillFrames : Recv(f)

Spec == Init /\ [][Next]_vars

\* The session of an operator who saves again and again and leaves the
\* number input and the stream alone once they are set up
NextRepeat ==
    \/ PageLoad
    \/ StartNewProduct
    \/ ToggleCalibration
    \/ StartStream
    \/ \E o \in Objs : ClickPoint(o)
    \/ CanvasReady
    \/ \E io_ok \in BOOLEAN : SaveUpTo(MaxRepeatRows, io_ok)
    \/ CaptureFrame
    \/ \E f \in StillFrames : Recv(f)

SpecRepeat == Init /\ [][NextRepeat]_vars

\* The session of an operator who works through the scenario: calibrates
\* with the default known length, measures and saves one product
NextScenario ==
    \/ PageLoad
    \/ ToggleCalibration
    \/ StartStream
    \/ \E o \in ScenarioObjs : ClickPoint(o)
    \/ CanvasReady
    \/ \E io_ok \in BOOLEAN : SaveUpTo(MaxRows, io_ok)
    \/ CaptureFrame
    \/ \E f \in StillFrames : Recv(f)

SpecScenario == Init /\ [][NextScenario]_vars

\* The frame hand-off: frame.copy() pixel by pixel against the producer of
\* a moving scene
NextVideo ==
    \/ PageLoad
    \/ StartNewProduct
    \/ StartStream
    \/ StopStream
    \/ CaptureBegin
    \/ CopyPixel
    \/ CaptureFinish
    \/ \E f \in Frames : Recv(f)

SpecVideo == Init /\ [][NextVideo]_vars

\* ------------------------------------------------------------------ claims
Image == Pixels(heap, captured_image)
FileLines == IF csv.exists THEN csv.lines ELSE <<Header>>
LastLine(f) == f.lines[Len(f.lines)]
WidthPx(pts)  == SeqMax([i \in 1 .. Len(pts) |-> pts[i][1]]) - SeqMin([i \in 1 .. Len(pts) |-> pts[i][1]])
HeightPx(pts) == SeqMax([i \in 1 .. Len(pts) |-> pts[i][2]]) - SeqMin([i \in 1 .. Len(pts) |-> pts[i][2]])

\* C1: "Measure & Save" appends a row only if at least 2 points are held
\* when it is clicked; clicked with fewer than 2 points it writes no row and
\* leaves points, measured distances, captured image, ratio and product
\* counter as they were.
C1_SaveNeedsTwoPoints ==
    [][\A io_ok \in BOOLEAN :
          MeasureAndSave(io_ok) =>
             /\ (csv'.lines # FileLines => Len(points) >= 2)
             /\ (Len(points) < 2 =>
                    /\ csv'.lines = FileLines
                    /\ points' = points
                    /\ measured_distances' = measured_distances
                    /\ Image' = Image
                    /\ ratio' = ratio
                    /\ product_count' = product_count)]_vars

\* C1 witness: a save was refused with one point held although a ratio is set
C1_Witness ==
    /\ "save_warning" \in msgs
    /\ Len(points) = 1
    /\ Truthy(ratio)
    /\ captured_image # NoImage

\* C2 (as claimed): a save with at least 2 points and no calibration so far
\* appends a row whose width and height are computed with the default ratio.
C2_SaveUsesDefaultRatio ==
    [][(MeasureAndSave(TRUE) /\ Len(points) >= 2 /\ ratio = NoRatio) =>
          /\ Len(csv'.lines) = Len(FileLines) + 1
          /\ LastLine(csv').w = Fmt2(RMul(RInt(WidthPx(points)), DEFAULT_RATIO))
          /\ LastLine(csv').h = Fmt2(RMul(RInt(HeightPx(points)), DEFAULT_RATIO))]_vars

\* C3 (as claimed): every row of the session has a product index strictly
\* greater than that of every row the session wrote before it.
C3_IndexStrictlyIncreasing ==
    \A i, j \in 1 .. Len(SessionRows) :
        i < j => SessionRows[i].num < SessionRows[j].num

\* C3 (amended): every row of the session has a positive product index that
\* is greater than or equal to that of every row the session wrote before
\* it, and no greater than the product counter plus one.
C3_IndexNonDecreasing ==
    /\ \A i \in 1 .. Len(SessionRows) :
          /\ SessionRows[i].num >= 1
          /\ SessionRows[i].num <= product_count + 1
    /\ \A i, j \in 1 .. Len(SessionRows) :
          i < j => SessionRows[i].num <= SessionRows[j].num

\* C3 witness: two rows of one session; the second was written after
\* "Start New Product" and has the greater index
C3_Witness ==
    /\ Len(SessionRows) = 2
    /\ SessionRows[1].num < SessionRows[2].num

\* C4: the stored ratio is unset or strictly positive in every state; a
\* calibration on two coincident points leaves the ratio, and with it every
\* piece of session state the event itself did not touch, as it was; a
\* calibration on two distinct points stores known length / pixel distance
\* (stated without the square root: ratio^2 * distance^2 = known^2).
C4_RatioPositive == ratio = NoRatio \/ RPos(ratio)

C4_Rejected ==
    /\ ("too_close" \in msgs' => ratio' = ratio)
    /\ ("too_close" \in msgs' /\ "saved" \notin msgs' =>
            /\ measured_distances' = measured_distances
            /\ product_count' = product_count
            /\ Len(points') = 2 /\ points'[1] = points'[2])
    /\ (Rerun /\ "too_close" \in msgs' =>
            /\ points' = points
            /\ Image' = Image
            /\ calibration_mode' = calibration_mode)

C4_Stored ==
    ("calibrated" \in msgs' /\ "saved" \notin msgs') =>
        LET dx == points'[2][1] - points'[1][1]
            dy == points'[2][2] - points'[1][2]
        IN  /\ Len(points') = 2
            /\ known_cm' \in KnownLengths
            /\ ratio'[1] * ratio'[1] * (dx * dx + dy * dy) * known_cm'[2] * known_cm'[2]
                 = known_cm'[1] * known_cm'[1] * ratio'[2] * ratio'[2]

C4_Calibration ==
    /\ []C4_RatioPositive
    /\ [][C4_Rejected /\ C4_Stored]_vars

\* C4 witness: a calibration on coincident points was rejected after an
\* earlier one had stored a ratio
C4_Witness ==
    /\ "too_close" \in msgs
    /\ ratio # NoRatio
    /\ Len(points) = 2

\* C5 (as claimed): switching the calibration checkbox leaves ratio, points,
\* measured distances, captured image and product counter as they were.
C5_ToggleChangesNothing ==
    [][ToggleCalibration =>
          /\ ratio' = ratio
          /\ points' = points
          /\ measured_distances' = measured_distances
          /\ Image' = Image
          /\ product_count' = product_count]_vars

\* C6: "Start New Product" leaves points and measured distances empty and
\* the product counter greater by exactly 1; started from the state an
\* earlier "Start New Product" left, it changes the counter and nothing
\* else, so two in a row clear alike and add exactly 2.
Cleared ==
    /\ points = << >>
    /\ measured_distances = << >>
    /\ captured_image = NoImage
    /\ canvas_bg = NotShown
    /\ known_cm = NoInput
    /\ msgs = {}

C6_StartNewProduct ==
    [][StartNewProduct =>
          /\ Cleared'
          /\ product_count' = product_count + 1
          /\ (Cleared =>
                UNCHANGED <<points, measured_distances, captured_image, ratio,
                            calibration_mode, csv, widgets, video, heap,
                            copier, msgs>>)]_vars

\* C6 witness: two products were started in a session that holds a ratio
C6_Witness ==
    /\ product_count = 2
    /\ Cleared
    /\ ratio # NoRatio

\* C7: the file only grows, and by one row per successful save: every step
\* leaves the lines that were there as they were and in their order, adds
\* one row at the end exactly when a save succeeds, and writes the header
\* only when the file did not exist.
C7_AppendOnly ==
    [][/\ csv.exists =>
            /\ Len(csv'.lines) >= Len(csv.lines)
            /\ \A i \in 1 .. Len(csv.lines) : csv'.lines[i] = csv.lines[i]
       /\ csv'.exists
       /\ ~csv.exists => csv'.lines[1] = Header
       /\ \A i \in 2 .. Len(csv'.lines) : ~csv'.lines[i].hdr
       /\ IF MeasureAndSave(TRUE) /\ "saved" \in msgs'
          THEN Len(csv'.lines) = Len(FileLines) + 1
          ELSE csv'.lines = FileLines]_vars

\* C7 witness: the session added its row behind the row of an earlier session
C7_Witness ==
    /\ Len(SessionRows) = 1
    /\ session_base = 2
    /\ csv.lines[2] = OldRow
    /\ Len(csv.lines) = 3

\* C8: when the write of "Measure & Save" fails, points, measured distances,
\* captured image, ratio and product counter are after the run what they
\* were before it, and the save can be tried again.
C8_FailedSaveKeepsState ==
    [][(MeasureAndSave(FALSE) /\ "exception" \in msgs') =>
          /\ points' = points
          /\ measured_distances' = measured_distances
          /\ Image' = Image
          /\ captured_image' # NoImage
          /\ ratio' = ratio
          /\ product_count' = product_count
          /\ csv' = csv
          /\ Len(points') > 1 /\ Truthy(ratio')]_vars

\* C8 witness: a write has failed and the points are still there
C8_Witness ==
    /\ "exception" \in msgs
    /\ Len(points) >= 2
    /\ measured_distances # << >>

\* C9: a run that finds more than 2 points in calibration mode leaves the
\* stored ratio as it was, set or not.
C9_TooManyPoints ==
    [][("only_two" \in msgs' \/ (calibration_mode' /\ Len(points') > 2 /\ captured_image' # NoImage))
          => ratio' = ratio]_vars

\* C9 witness: three points in calibration mode with a ratio stored before
C9_Witness ==
    /\ "only_two" \in msgs
    /\ Len(points) = 3
    /\ calibration_mode
    /\ ratio # NoRatio

\* C10: the captured image is, pixel for pixel, one frame of the producer;
\* a delivery does not change a captured image; "Capture Frame" without a
\* frame held leaves the captured image as it was.
C10_WholeFrame == captured_image # NoImage => Image \in Frames

C10_FrameHandOff ==
    /\ []C10_WholeFrame
    /\ [][((\E f \in Frames : Recv(f)) => Image' = Image)
          /\ ((CaptureBegin /\ ~FrameHeld) => Image' = Image)]_vars

\* C10 witness: an image is held and the producer has since delivered a
\* frame with other pixels
C10_Witness ==
    /\ captured_image # NoImage
    /\ vp_frame # NoImage
    /\ heap[vp_frame] # Image
    /\ pc = "idle"

\* C11: after a successful "Measure & Save" the points and the measured
\* distances are empty and no captured image is held, while the ratio and
\* the product counter are what they were before the save.
C11_SaveClears ==
    [][(MeasureAndSave(TRUE) /\ "saved" \in msgs') =>
          /\ points' = << >>
          /\ measured_distances' = << >>
          /\ captured_image' = NoImage
          /\ ratio' = ratio
          /\ product_count' = product_count]_vars

\* C11 witness: a row was just saved in a session that is at its second
\* product and had measured distances before
C11_Witness ==
    /\ "saved" \in msgs
    /\ Len(SessionRows) = 1
    /\ LastLine(csv).d # << >>
    /\ product_count = 1
    /\ ratio # NoRatio

\* C12: calibrating on (0,0),(100,0) with known length 15 stores the ratio
\* 0.15; measuring (0,0),(100,0),(100,50) with it and saving writes the
\* distances 15.00 and 7.50, the width 15.00 and the height 7.50; in every
\* row width and height are (max x - min x) * ratio and (max y - min y) *
\* ratio over the points held, to 2 decimals.
ScenarioCalibration == << <<0, 0>>, <<100, 0>> >>
ScenarioPoints == << <<0, 0>>, <<100, 0>>, <<100, 50>> >>

C12_Calibrated ==
    (calibration_mode /\ points = ScenarioCalibration /\ known_cm = <<15, 1>>)
        => (ratio[1] * 100 = 15 * ratio[2] /\ "calibrated" \in msgs)

C12_Saved ==
    (MeasureAndSave(TRUE) /\ "saved" \in msgs') =>
        /\ LastLine(csv').w * ratio[2] <= 100 * WidthPx(points) * ratio[1] + ratio[2] \div 2
        /\ LastLine(csv').w * ratio[2] >= 100 * WidthPx(points) * ratio[1] - ratio[2] \div 2
        /\ LastLine(csv').h * ratio[2] <= 100 * HeightPx(points) * ratio[1] + ratio[2] \div 2
        /\ LastLine(csv').h * ratio[2] >= 100 * HeightPx(points) * ratio[1] - ratio[2] \div 2
        /\ (~calibration_mode /\ points = ScenarioPoints /\ ratio[1] * 100 = 15 * ratio[2]) =>
               LastLine(csv') = Row(product_count + 1, 1500, 750, <<1500, 750>>)

C12_Scenario ==
    /\ []C12_Calibrated
    /\ [][C12_Saved]_vars

\* C12 witness: the row of the scenario has just been written
C12_Witness ==
    /\ "saved" \in msgs
    /\ ~calibration_mode
    /\ ratio = <<3, 20>>
    /\ Len(SessionRows) = 1
    /\ LastLine(csv) = Row(1, 1500, 750, <<1500, 750>>)

\* C13: measuring n points gives max(n-1, 0) segments in the order of the
\* points, the i-th being the pixel distance of points i and i+1 times the
\* ratio in effect; fewer than 2 points give no segment, and the run ends
\* without an error and leaves the stored distances alone.
Measuring == ~calibration_mode /\ captured_image # NoImage

\* x is e times rt, for a whole number e with e * e = d2
IsTimes(x, d2, rt) ==
    \E e \in 0 .. 100 : e * e = d2 /\ x[1] * rt[2] = e * rt[1] * x[2]

Dist2(p, q) == (q[1] - p[1]) * (q[1] - p[1]) + (q[2] - p[2]) * (q[2] - p[2])

C13_Measured ==
    /\ Len(Distances(points, RatioOrDefault(ratio)))
          = (IF Len(points) > 1 THEN Len(points) - 1 ELSE 0)
    /\ (Measuring /\ Len(points) >= 2) =>
          /\ Len(measured_distances) = Len(points) - 1
          /\ \A i \in 1 .. Len(points) - 1 :
                IsTimes(measured_distances[i], Dist2(points[i], points[i + 1]),
                        RatioOrDefault(ratio))

C13_Few ==
    (Measuring' /\ Len(points') < 2 /\ "saved" \notin msgs') =>
        /\ measured_distances' = measured_distances
        /\ "exception" \notin msgs'

C13_Segments ==
    /\ []C13_Measured
    /\ [][C13_Few]_vars

\* C13 witness: three points measured with the default ratio, two segments
\* of different length
C13_Witness ==
    /\ Measuring
    /\ Len(points) = 3
    /\ ratio = NoRatio
    /\ Len(measured_distances) = 2
    /\ measured_distances[1] # measured_distances[2]

\* C14: the stored ratio changes only in a run that reports a successful
\* calibration; "Start New Product", "Capture Frame", a point placed in
\* measurement mode and "Measure & Save", successful or not, leave it as it
\* was, and once set it is never unset.
C14_RatioFrame ==
    [][/\ (ratio' # ratio => ("calibrated" \in msgs' /\ calibration_mode'))
       /\ (ratio # NoRatio => ratio' # NoRatio)
       /\ (StartNewProduct => ratio' = ratio)
       /\ (CaptureFrame => ratio' = ratio)
       /\ (\A o \in Objs : (ClickPoint(o) /\ ~calibration_mode) => ratio' = ratio)
       /\ (\A io_ok \in BOOLEAN : MeasureAndSave(io_ok) => ratio' = ratio)]_vars

\* C14 witness: a ratio calibrated with a typed-in length is still stored
\* two products later
C14_Witness ==
    /\ product_count = 2
    /\ ratio = <<1, 500>>
    /\ Cleared

\* the session as "Measure & Save" finds it at line 132 of its execution
AtSave == SelectPoints(BeforeCapture, Widgets, Image)

\* C15 (as claimed): every row written is self-consistent: its distance list
\* has one entry less than the points held at the save, and entry i is the
\* pixel distance of points i and i+1 times the ratio that gave the row its
\* width and height, to 2 decimals.
C15_RowConsistent ==
    [][(MeasureAndSave(TRUE) /\ "saved" \in msgs') =>
          LET s == AtSave
              row == LastLine(csv')
          IN  /\ row.w = Fmt2(RMul(RInt(WidthPx(s.points)), s.ratio))
              /\ row.h = Fmt2(RMul(RInt(HeightPx(s.points)), s.ratio))
              /\ Len(row.d) = Len(s.points) - 1
              /\ \A i \in 1 .. Len(s.points) - 1 :
                    row.d[i] = Fmt2(RMul(PixelDist(s.points[i], s.points[i + 1]), s.ratio))]_vars

\* C16: when the handling of an operator action is over, points are held
\* only while a captured image is held.
C16_PointsNeedImage == points # << >> => captured_image # NoImage

\* C16 witness: points are held on an image captured after an earlier image
\* was given up by a save and a new product was started
C16_Witness ==
    /\ points # << >>
    /\ captured_image # NoImage
    /\ Len(SessionRows) = 1
    /\ product_count = 1

TypeOK ==
    /\ product_count \in 0 .. MaxProducts
    /\ Len(points) <= MaxPoints
    /\ pc \in {"idle", "copying"}

====
